---- MODULE Spec2Model ----
(***************************************************************************)
(* Model of williamrxu/ProgLearn:                                          *)
(*   proglearn/voters.py                     - BaseVoter and its two       *)
(*                                             subclasses                  *)
(*   docs/tutorials/sample_size_experiment.py - four model factories       *)
(*                                                                         *)
(* voters.py is read with the indentation its author intended (method      *)
(* bodies belong to the enclosing def, defs to the enclosing class) and    *)
(* with instances being constructible: the class header passes the         *)
(* keyword meta_class, so no ABCMeta instantiation check is modelled.      *)
(* The external libraries (scikit-learn, Keras) are modelled by what the   *)
(* code hands to them and by whether their calls succeed or raise.         *)
(***************************************************************************)
EXTENDS Integers, Sequences, FiniteSets, TLC

\* ------------------------------------------------------------------ bounds
MaxFits == 2          \* ensembles one voter may construct in a behaviour
MaxEstimators == 2    \* values 1..MaxEstimators for the n_estimators field
MaxComplexity == 5    \* complexity ranges over MinComplexity..MaxComplexity
MaxParam == 2         \* every other hyperparameter ranges over 1..MaxParam

MinComplexity == 0 - 1

\* ------------------------------------------------------------ voters.py
VARIABLES cls,        \* class of the voter instance
          dict,       \* names bound in the instance's __dict__
          nEst,       \* value bound to self.n_estimators (when bound)
          ensemble,   \* value bound to self.ensemble (when bound)
          nfits,      \* ensembles constructed so far
          completed,  \* history: some fit call has returned normally
          result      \* outcome of the last call on the instance

\* ------------------------------------------- sample_size_experiment.py
VARIABLES out         \* what the last factory call did and returned

voterVars == <<cls, dict, nEst, ensemble, nfits, completed, result>>
vars == <<cls, dict, nEst, ensemble, nfits, completed, result, out>>

FVC == "ForestVoterClassification"
FVR == "ForestVoterRegression"
Base == "BaseVoter"
Classes == {FVC, FVR}

\* Methods decorated with abc.abstractmethod in BaseVoter.
AbstractMethods == {"fit", "vote", "is_fitted"}

\* Names defined in the body of each class.
ClassDict(c) ==
    IF c = Base THEN {"fit", "vote", "is_fitted"}
    ELSE IF c = FVC THEN {"__init__", "fit", "transform", "is_fitted"}
    ELSE {}

\* Method resolution order lookup: the class whose body supplies the name.
Resolve(c, name) ==
    IF name \in ClassDict(c) THEN c
    ELSE IF name \in ClassDict(Base) THEN Base
    ELSE "object"

\* Configuration fields read by fit, in Python's evaluation order of the
\* expression self.bagger(self.learner(...), n_estimators=..., ...).
FitReads == <<"bagger", "learner", "max_depth", "min_samples_leaf",
              "max_features_tree", "n_estimators", "max_samples",
              "bootstrap">>
Fields == {FitReads[i] : i \in 1..Len(FitReads)}

\* Instance __dict__ after __init__ (body is `pass`; assignments commented).
InitDictWithFields == Fields
InitDict == {}

Undefined == [id |-> 0, fitted |-> FALSE, n_estimators |-> 0]

\* Index in FitReads of the first field absent from d (0 when none is).
FirstUndefined(d) ==
    LET missing == {i \in 1..Len(FitReads) : FitReads[i] \notin d}
    IN IF missing = {} THEN 0
       ELSE CHOOSE i \in missing : \A j \in missing : i <= j

\* What the expression self.is_fitted evaluates to: the instance __dict__
\* entry (always the bool True) shadows the method of the class.
IsFittedAttr(d) == IF "is_fitted" \in d THEN "True" ELSE "bound_method"

Res(op, definedIn, outcome, detail, rows, readEns, fresh) ==
    [op |-> op, definedIn |-> definedIn, outcome |-> outcome,
     detail |-> detail, rows |-> rows, readEnsemble |-> readEns,
     fresh |-> fresh]

Fresh == result.op = "__init__"

VoterInit ==
    /\ cls \in Classes
    /\ dict = InitDict
    /\ nEst = 1
    /\ ensemble = Undefined
    /\ nfits = 0
    /\ completed = FALSE
    /\ result = Res("__init__", Resolve(cls, "__init__"), "ok", "None", 0,
                    FALSE, FALSE)

\* Client code binds a configuration field on the instance (the only way
\* the fields fit reads can come to exist, no constructor assigning them).
SetField(f, v) ==
    /\ f \in Fields
    /\ f \notin dict
    /\ dict' = dict \cup {f}
    /\ nEst' = IF f = "n_estimators" THEN v ELSE nEst
    /\ result' = Res("setattr", "object", "ok", f, 0, FALSE, Fresh)
    /\ UNCHANGED <<cls, ensemble, nfits, completed, out>>

\* fit(X, y).  validXy: check_X_y accepts (X, y).  ensFitOk: the bagging
\* ensemble's own fit returns normally.
Fit(validXy, ensFitOk) ==
    LET owner == Resolve(cls, "fit")
        miss == FirstUndefined(dict)
    IN
    /\ nfits < MaxFits
    /\ IF owner # FVC
       THEN \* BaseVoter.fit: body is `pass`
            /\ result' = Res("fit", owner, "ok", "None", 0, FALSE, Fresh)
            /\ UNCHANGED <<dict, ensemble, nfits, completed>>
       ELSE IF ~validXy
       THEN \* line 64: check_X_y raises
            /\ result' = Res("fit", owner, "ValueError", "check_X_y", 0,
                             FALSE, Fresh)
            /\ UNCHANGED <<dict, ensemble, nfits, completed>>
       ELSE IF miss # 0
       THEN \* lines 67-76: attribute lookup fails before the assignment
            /\ result' = Res("fit", owner, "AttributeError", FitReads[miss],
                             0, FALSE, Fresh)
            /\ UNCHANGED <<dict, ensemble, nfits, completed>>
       ELSE IF ~ensFitOk
       THEN \* line 67 assigned self.ensemble, line 78 raises
            /\ ensemble' = [id |-> nfits + 1, fitted |-> FALSE,
                            n_estimators |-> nEst]
            /\ dict' = dict \cup {"ensemble"}
            /\ nfits' = nfits + 1
            /\ result' = Res("fit", owner, "ValueError", "ensemble.fit", 0,
                             FALSE, Fresh)
            /\ UNCHANGED completed
       ELSE \* lines 67-79 all run
            /\ ensemble' = [id |-> nfits + 1, fitted |-> TRUE,
                            n_estimators |-> nEst]
            /\ dict' = dict \cup {"ensemble", "is_fitted"}
            /\ nfits' = nfits + 1
            /\ completed' = TRUE
            /\ result' = Res("fit", owner, "ok", "None", 0, FALSE, Fresh)
    /\ UNCHANGED <<cls, nEst, out>>

\* What transform(X) does in the current state.  validX: check_array
\* accepts X.
TransformResult(validX) ==
    LET owner == Resolve(cls, "transform")
    IN
    IF owner # FVC
    THEN \* no attribute named transform
         Res("transform", owner, "AttributeError", "transform", 0, FALSE,
             Fresh)
    ELSE IF IsFittedAttr(dict) = "True"
    THEN \* line 87: self.is_fitted() calls the bool True
         Res("transform", owner, "TypeError", "bool not callable", 0, FALSE,
             Fresh)
    \* line 87: the method returns itself, a truthy object: no raise
    ELSE IF ~validX
    THEN Res("transform", owner, "ValueError", "check_array", 0, FALSE,
             Fresh)
    ELSE IF "ensemble" \notin dict
    THEN Res("transform", owner, "AttributeError", "ensemble", 0, TRUE,
             Fresh)
    ELSE IF ~ensemble.fitted
    THEN Res("transform", owner, "AttributeError", "estimators_", 0, TRUE,
             Fresh)
    ELSE Res("transform", owner, "ok", "ndarray", ensemble.n_estimators,
             TRUE, Fresh)

Transform(validX) ==
    /\ result' = TransformResult(validX)
    /\ UNCHANGED <<cls, dict, nEst, ensemble, nfits, completed, out>>

\* is_fitted()
IsFitted ==
    LET owner == Resolve(cls, "is_fitted")
    IN
    /\ result' =
         IF IsFittedAttr(dict) = "True"
         THEN Res("is_fitted", owner, "TypeError", "bool not callable", 0,
                  FALSE, Fresh)
         ELSE IF owner = FVC
         THEN \* line 103: returns self.is_fitted, the bound method
              Res("is_fitted", owner, "ok", IsFittedAttr(dict), 0, FALSE,
                  Fresh)
         ELSE Res("is_fitted", owner, "ok", "None", 0, FALSE, Fresh)
    /\ UNCHANGED <<cls, dict, nEst, ensemble, nfits, completed, out>>

\* vote(X): only BaseVoter supplies it; its body is `pass`.
Vote ==
    /\ result' = Res("vote", Resolve(cls, "vote"), "ok", "None", 0, FALSE,
                     Fresh)
    /\ UNCHANGED <<cls, dict, nEst, ensemble, nfits, completed, out>>

VoterNext ==
    \/ \E f \in Fields, v \in 1..MaxEstimators : SetField(f, v)
    \/ \E validXy \in BOOLEAN, ensFitOk \in BOOLEAN : Fit(validXy, ensFitOk)
    \/ \E validX \in BOOLEAN : Transform(validX)
    \/ IsFitted
    \/ Vote

\* ------------------------------------------- sample_size_experiment.py
NA == 0 - 99     \* marks an argument or setting the call does not have

NoArgs == [X_train |-> NA, y_train |-> NA, num_trees |-> NA,
           max_depth |-> NA, output_nodes |-> NA, complexity |-> NA,
           epochs |-> NA, batch_size |-> NA, learning_rate |-> NA,
           validation_split |-> NA, verbose |-> NA]

NoFitArgs == [x |-> NA, y |-> NA, epochs |-> NA, batch_size |-> NA,
              validation_split |-> NA, verbose |-> NA]

NoOptimizer == [kind |-> "none", learning_rate |-> NA]

\* Data set X has Shape1(X) feature columns (X_train.shape[1]).
Shape1(X) == X + 1

\* ---- library objects: what the code hands to scikit-learn and Keras
Layer(type, units, activation) ==
    [type |-> type, units |-> units, activation |-> activation]
Conv2D(filters) == Layer("Conv2D", filters, "relu")
MaxPooling2D == Layer("MaxPooling2D", NA, "none")
Flatten == Layer("Flatten", NA, "none")
Dense(units, activation) == Layer("Dense", units, activation)

NewModel(kind, n_estimators, max_depth, verbose) ==
    [kind |-> kind, n_estimators |-> n_estimators, max_depth |-> max_depth,
     verbose |-> verbose, layers |-> <<>>, optimizer |-> NoOptimizer,
     loss |-> "none", fitArgs |-> NoFitArgs, trace |-> <<"construct">>]

RandomForestClassifier(n_estimators, max_depth, verbose) ==
    NewModel("RandomForestClassifier", n_estimators, max_depth, verbose)
Sequential == NewModel("Sequential", NA, NA, NA)

Add(m, layer) ==
    [m EXCEPT !.layers = Append(@, layer), !.trace = Append(@, "add")]

Adam(learning_rate) == [kind |-> "Adam", learning_rate |-> learning_rate]

Compile(m, optimizer, loss) ==
    [m EXCEPT !.optimizer = optimizer, !.loss = loss,
              !.trace = Append(@, "compile")]

ModelFit(m, x, y, epochs, batch_size, validation_split, verbose) ==
    [m EXCEPT !.fitArgs = [x |-> x, y |-> y, epochs |-> epochs,
                           batch_size |-> batch_size,
                           validation_split |-> validation_split,
                           verbose |-> verbose],
              !.trace = Append(@, "fit")]

Return(m) == [m EXCEPT !.trace = Append(@, "return")]

\* ---- the four factory functions
RandomForestModelCompiled(X_train, y_train, num_trees, max_depth, verbose) ==
    LET m0 == RandomForestClassifier(num_trees, max_depth, verbose)
        m1 == Compile(m0, NoOptimizer, "none")
        m2 == ModelFit(m1, X_train, y_train, NA, NA, NA, NA)
    IN Return(m2)
random_forest_classifier_model(X_train, y_train, num_trees, max_depth, verbose) ==
    LET rf_model == RandomForestClassifier(num_trees, max_depth, verbose)
        fitted == ModelFit(rf_model, X_train, y_train, NA, NA, NA, NA)
    IN Return(fitted)

BinaryDroppingBatchSize(X_train, y_train, epochs, batch_size, learning_rate, validation_split, verbose) ==
    LET m0 == Sequential
        m1 == Add(m0, Dense(Shape1(X_train), "relu"))
        m2 == Add(m1, Dense(8, "relu"))
        m3 == Add(m2, Dense(1, "sigmoid"))
        m4 == Compile(m3, Adam(learning_rate), "binary_crossentropy")
        m5 == ModelFit(m4, X_train, y_train, epochs, 32, validation_split,
                       verbose)
    IN Return(m5)
binary_deep_neural_network(X_train, y_train, epochs, batch_size, learning_rate, validation_split, verbose) ==
    LET m0 == Sequential
        m1 == Add(m0, Dense(Shape1(X_train), "relu"))
        m2 == Add(m1, Dense(8, "relu"))
        m3 == Add(m2, Dense(1, "sigmoid"))
        adam_optimizer == Adam(learning_rate)
        m4 == Compile(m3, adam_optimizer, "binary_crossentropy")
        m5 == ModelFit(m4, X_train, y_train, epochs, batch_size,
                       validation_split, verbose)
    IN Return(m5)

multiclass_deep_neural_network(X_train, y_train, output_nodes, epochs, batch_size, learning_rate, validation_split, verbose) ==
    LET m0 == Sequential
        m1 == Add(m0, Dense(8, "relu"))
        m2 == Add(m1, Dense(8, "relu"))
        m3 == Add(m2, Dense(output_nodes, "softmax"))
        adam_optimizer == Adam(learning_rate)
        m4 == Compile(m3, adam_optimizer, "categorical_crossentropy")
        m5 == ModelFit(m4, X_train, y_train, epochs, batch_size,
                       validation_split, verbose)
    IN Return(m5)

\* for _ in range(i, stop): cnn_model.add(Conv2D(64, ...))
RECURSIVE AddConvs(_, _, _)
AddConvs(m, i, stop) ==
    IF i >= stop THEN m ELSE AddConvs(Add(m, Conv2D(64)), i + 1, stop)

\* Lines 197-201: the layers that depend on complexity.
ExtraLayersFromZero(m, complexity) ==
    IF complexity > 2
    THEN Add(AddConvs(m, 0, complexity - 1), MaxPooling2D)
    ELSE m
ExtraLayersNoGuard(m, complexity) ==
    Add(AddConvs(m, 1, complexity - 1), MaxPooling2D)
ExtraLayers(m, complexity) ==
    IF complexity > 2
    THEN Add(AddConvs(m, 1, complexity - 1), MaxPooling2D)
    ELSE m

parametric_convolutional_neural_network(X_train, y_train, complexity, epochs, batch_size, learning_rate, validation_split, verbose) ==
    LET m0 == Sequential
        m1 == Add(m0, Conv2D(32))
        m2 == Add(m1, Conv2D(64))
        m3 == Add(m2, MaxPooling2D)
        m4 == ExtraLayers(m3, complexity)
        m5 == Add(m4, Flatten)
        m6 == Add(m5, Dense(64, "relu"))
        m7 == Add(m6, Dense(1, "sigmoid"))
        adam_optimizer == Adam(learning_rate)
        m8 == Compile(m7, adam_optimizer, "binary_crossentropy")
        m9 == ModelFit(m8, X_train, y_train, epochs, batch_size,
                       validation_split, verbose)
    IN Return(m9)

Idle == [fn |-> "none", args |-> NoArgs, ret |-> NewModel("none", NA, NA, NA)]

Params == 1..MaxParam
Complexities == MinComplexity..MaxComplexity

CallRandomForest ==
    \E X \in Params, y \in Params, num_trees \in Params,
       max_depth \in Params, verbose \in Params :
        /\ out = Idle
        /\ out' = [fn |-> "random_forest_classifier_model",
                   args |-> [NoArgs EXCEPT !.X_train = X, !.y_train = y,
                                           !.num_trees = num_trees,
                                           !.max_depth = max_depth,
                                           !.verbose = verbose],
                   ret |-> random_forest_classifier_model(
                               X, y, num_trees, max_depth, verbose)]
        /\ UNCHANGED voterVars

CallBinary ==
    \E X \in Params, y \in Params, epochs \in Params, batch_size \in Params,
       learning_rate \in Params, validation_split \in Params,
       verbose \in Params :
        /\ out = Idle
        /\ out' = [fn |-> "binary_deep_neural_network",
                   args |-> [NoArgs EXCEPT !.X_train = X, !.y_train = y,
                                           !.epochs = epochs,
                                           !.batch_size = batch_size,
                                           !.learning_rate = learning_rate,
                                           !.validation_split =
                                               validation_split,
                                           !.verbose = verbose],
                   ret |-> binary_deep_neural_network(
                               X, y, epochs, batch_size, learning_rate,
                               validation_split, verbose)]
        /\ UNCHANGED voterVars

CallMulticlass ==
    \E X \in Params, y \in Params, output_nodes \in Params,
       epochs \in Params, batch_size \in Params, learning_rate \in Params,
       validation_split \in Params, verbose \in Params :
        /\ out = Idle
        /\ out' = [fn |-> "multiclass_deep_neural_network",
                   args |-> [NoArgs EXCEPT !.X_train = X, !.y_train = y,
                                           !.output_nodes = output_nodes,
                                           !.epochs = epochs,
                                           !.batch_size = batch_size,
                                           !.learning_rate = learning_rate,
                                           !.validation_split =
                                               validation_split,
                                           !.verbose = verbose],
                   ret |-> multiclass_deep_neural_network(
                               X, y, output_nodes, epochs, batch_size,
                               learning_rate, validation_split, verbose)]
        /\ UNCHANGED voterVars

CallParametric ==
    \E X \in Params, y \in Params, complexity \in Complexities,
       epochs \in Params, batch_size \in Params, learning_rate \in Params,
       validation_split \in Params, verbose \in Params :
        /\ out = Idle
        /\ out' = [fn |-> "parametric_convolutional_neural_network",
                   args |-> [NoArgs EXCEPT !.X_train = X, !.y_train = y,
                                           !.complexity = complexity,
                                           !.epochs = epochs,
                                           !.batch_size = batch_size,
                                           !.learning_rate = learning_rate,
                                           !.validation_split =
                                               validation_split,
                                           !.verbose = verbose],
                   ret |-> parametric_convolutional_neural_network(
                               X, y, complexity, epochs, batch_size,
                               learning_rate, validation_split, verbose)]
        /\ UNCHANGED voterVars

FactoryInit ==
    /\ out = Idle
    /\ cls = FVC
    /\ dict = InitDict
    /\ nEst = 1
    /\ ensemble = Undefined
    /\ nfits = 0
    /\ completed = FALSE
    /\ result = Res("__init__", Resolve(cls, "__init__"), "ok", "None", 0,
                    FALSE, FALSE)

FactoryNext ==
    \/ CallRandomForest
    \/ CallBinary
    \/ CallMulticlass
    \/ CallParametric

\* ------------------------------------------------------- specifications
Init == VoterInit /\ out = Idle
Next == VoterNext
Spec == Init /\ [][Next]_vars

FactorySpec == FactoryInit /\ [][FactoryNext]_vars

\* ----------------------------------------------------------- properties
Max(a, b) == IF a >= b THEN a ELSE b

CountType(layers, t) ==
    Cardinality({i \in DOMAIN layers : layers[i].type = t})

CountOp(trace, op) == Cardinality({i \in DOMAIN trace : trace[i] = op})

Parametric == "parametric_convolutional_neural_network"
KerasFactories == {"binary_deep_neural_network",
                   "multiclass_deep_neural_network", Parametric}

\* C1: for every integer complexity c the model built by
\* parametric_convolutional_neural_network holds exactly max(2, c) Conv2D
\* layers.
C1_ConvLayerCount ==
    out.fn = Parametric =>
        CountType(out.ret.layers, "Conv2D") = Max(2, out.args.complexity)

C1_Witness ==
    /\ out.fn = Parametric
    /\ out.args.complexity = 4
    /\ CountType(out.ret.layers, "Conv2D") = 4

\* The call sequence construct, add*, compile, fit, return.
CompiledLifecycle(trace) ==
    LET n == Len(trace)
    IN /\ n >= 4
       /\ trace[1] = "construct"
       /\ \A i \in 2..(n - 3) : trace[i] = "add"
       /\ trace[n - 2] = "compile"
       /\ trace[n - 1] = "fit"
       /\ trace[n] = "return"

\* C2 as stated: every one of the four factories runs construct, compile,
\* fit, return in that order, compiling exactly once after all layers are
\* added and before the single fit.
C2_AllFactoriesCompile ==
    out.fn # "none" =>
        /\ CompiledLifecycle(out.ret.trace)
        /\ CountOp(out.ret.trace, "compile") = 1
        /\ CountOp(out.ret.trace, "fit") = 1

\* C2 amended: the three Keras factories run construct, add layers, compile,
\* fit, return, compiling exactly once after the last layer and before the
\* single fit; random_forest_classifier_model runs construct, fit, return
\* and never compiles.  The returned object carries the fit.
C2_Lifecycle ==
    /\ out.fn \in KerasFactories =>
          /\ CompiledLifecycle(out.ret.trace)
          /\ CountOp(out.ret.trace, "compile") = 1
          /\ CountOp(out.ret.trace, "fit") = 1
          /\ CountOp(out.ret.trace, "add") = Len(out.ret.layers)
          /\ out.ret.kind = "Sequential"
          /\ out.ret.fitArgs # NoFitArgs
    /\ out.fn = "random_forest_classifier_model" =>
          /\ out.ret.trace = <<"construct", "fit", "return">>
          /\ out.ret.kind = "RandomForestClassifier"
          /\ out.ret.fitArgs # NoFitArgs

C2_Witness ==
    /\ out.fn = "random_forest_classifier_model"
    /\ out.ret.trace = <<"construct", "fit", "return">>
    /\ out.ret.fitArgs.x = out.args.X_train

\* The layer list the claim describes for complexity c.
DescribedLayers(c) ==
    <<Conv2D(32), Conv2D(64), MaxPooling2D>>
    \o (IF c > 2
        THEN [i \in 1..(c - 2) |-> Conv2D(64)] \o <<MaxPooling2D>>
        ELSE <<>>)
    \o <<Flatten, Dense(64, "relu"), Dense(1, "sigmoid")>>

\* C7: the layers are Conv2D(32), Conv2D(64), MaxPooling2D, then for c > 2
\* exactly c-2 Conv2D(64) and one MaxPooling2D, then Flatten, Dense(64),
\* Dense(1, sigmoid): 1 pooling layer and 6 layers for c <= 2, 2 pooling
\* layers and c+5 layers for c > 2, no pooling between the extra
\* convolutions.
C7_LayerSequence ==
    out.fn = Parametric =>
        LET c == out.args.complexity
            layers == out.ret.layers
        IN /\ layers = DescribedLayers(c)
           /\ c <= 2 => /\ Len(layers) = 6
                        /\ CountType(layers, "MaxPooling2D") = 1
           /\ c > 2 => /\ Len(layers) = c + 5
                       /\ CountType(layers, "MaxPooling2D") = 2
                       /\ \A i \in 4..(c + 1) : layers[i] = Conv2D(64)
                       /\ layers[c + 2] = MaxPooling2D

C7_Witness ==
    /\ out.fn = Parametric
    /\ out.args.complexity = 5
    /\ Len(out.ret.layers) = 10
    /\ out.ret.layers[7] = MaxPooling2D

\* C8: every hyperparameter reaches the library call it names unchanged:
\* num_trees, max_depth, verbose reach RandomForestClassifier; learning_rate
\* reaches Adam; epochs, batch_size, validation_split, verbose, X_train and
\* y_train reach model.fit; output_nodes is the unit count of the final
\* softmax layer of the multiclass network.
C8_ParametersForwarded ==
    LET a == out.args
        m == out.ret
    IN
    /\ out.fn = "random_forest_classifier_model" =>
          /\ m.n_estimators = a.num_trees
          /\ m.max_depth = a.max_depth
          /\ m.verbose = a.verbose
          /\ m.fitArgs.x = a.X_train
          /\ m.fitArgs.y = a.y_train
    /\ out.fn \in KerasFactories =>
          /\ m.optimizer = [kind |-> "Adam",
                            learning_rate |-> a.learning_rate]
          /\ m.fitArgs = [x |-> a.X_train, y |-> a.y_train,
                          epochs |-> a.epochs,
                          batch_size |-> a.batch_size,
                          validation_split |-> a.validation_split,
                          verbose |-> a.verbose]
    /\ out.fn = "multiclass_deep_neural_network" =>
          m.layers[Len(m.layers)] =
              [type |-> "Dense", units |-> a.output_nodes,
               activation |-> "softmax"]

C8_Witness ==
    /\ out.fn = "binary_deep_neural_network"
    /\ out.args.batch_size = 2
    /\ out.args.epochs = 1
    /\ out.ret.fitArgs.batch_size = 2
    /\ out.ret.fitArgs.epochs = 1

\* C3: transform on a ForestVoterClassification on which no fit has
\* completed raises NotFittedError without reading self.ensemble.
C3_TransformUnfittedRaises ==
    (cls = FVC /\ result.op = "transform" /\ ~completed) =>
        /\ result.outcome = "NotFittedError"
        /\ ~result.readEnsemble

\* C4: is_fitted() returns a boolean, false while no fit has completed and
\* true once one has; after a successful fit transform passes the
\* not-fitted check and returns one array per estimator of self.ensemble.
C4_IsFittedBoolean ==
    cls = FVC =>
        /\ result.op = "is_fitted" =>
              /\ result.outcome = "ok"
              /\ result.detail = IF completed THEN "True" ELSE "False"
        /\ (result.op = "transform" /\ completed
              /\ result.detail # "check_array") =>
              /\ result.outcome = "ok"
              /\ result.rows = ensemble.n_estimators

\* C5: __init__ binds none of the fields fit reads, so fit with valid
\* (X, y) on a freshly constructed instance raises on the first field read,
\* with self.ensemble unassigned and is_fitted not set.
C5_FreshFitFails ==
    cls = FVC =>
        /\ result.op = "__init__" => dict \cap Fields = {}
        /\ (result.op = "fit" /\ result.fresh
              /\ result.detail # "check_X_y") =>
              /\ result.outcome = "AttributeError"
              /\ result.detail = FitReads[1]
              /\ "ensemble" \notin dict
              /\ ensemble = Undefined
              /\ "is_fitted" \notin dict
              /\ ~completed

C5_Witness ==
    /\ cls = FVC
    /\ result.op = "fit"
    /\ result.fresh
    /\ result.outcome = "AttributeError"
    /\ result.detail = "bagger"

\* C6: BaseVoter declares exactly the abstract operations fit, vote and
\* is_fitted; ForestVoterClassification implements all three, so a call of
\* any of them on its instance runs its own method; ForestVoterRegression
\* implements none.
C6_AbstractsImplemented ==
    /\ AbstractMethods = {"fit", "vote", "is_fitted"}
    /\ result.op \in AbstractMethods =>
          result.definedIn = (IF cls = FVC THEN FVC ELSE Base)

\* C9: the fitted flag is True only if self.ensemble is an ensemble whose
\* own fit has completed.
C9_FlagImpliesFittedEnsemble ==
    (cls = FVC /\ IsFittedAttr(dict) = "True") =>
        /\ "ensemble" \in dict
        /\ ensemble.fitted

\* C10: a fit that check_X_y rejects leaves self.ensemble and the fitted
\* flag as they were, so a previously fitted voter still transforms with
\* its old ensemble.
C10_RejectedFitKeepsVoter ==
    [][(cls = FVC /\ result'.op = "fit" /\ result'.detail = "check_X_y") =>
          /\ ensemble' = ensemble
          /\ dict' = dict
          /\ completed =>
                /\ TransformResult(TRUE)'.outcome = "ok"
                /\ TransformResult(TRUE)'.rows = ensemble.n_estimators]_vars

====
